---- MODULE Spec2Model ----
(***************************************************************************)
(* Model of src/main.py: the two-agent research flow.                      *)
(*   main_research_flow : input -> WebSearchAgent.run -> empty check ->    *)
(*                        SummaryReportAgent.run -> file write             *)
(* Text (topics, reports, file names, file contents) is a sequence of      *)
(* one-character strings, so that the prefix/suffix tests and the slices   *)
(* of the code are computed character by character.                        *)
(* Not modelled: console output (print) and the prompt text appended to    *)
(* self.messages, which no control decision of the program reads.          *)
(***************************************************************************)
EXTENDS Integers, Sequences, FiniteSets

VARIABLES
  pc,               \* position of main_research_flow
  env_ok,           \* GOOGLE_API_KEY and GOOGLE_CSE_ID are both set
  research_topic,   \* main_research_flow: research_topic
  json_output,      \* WebSearchAgent.run: response.choices[0].message.content
  search_terms,     \* WebSearchAgent.run: search.search_terms
  idx,              \* WebSearchAgent.run: position of the for loop (1-based)
  results,          \* WebSearchAgent.run: results / main_research_flow: results
  raw_report,       \* SummaryReportAgent.run: response.choices[0].message.content
  summary_report,   \* main_research_flow: summary_report
  fs,               \* the working directory: a set of [name, content] files
  failure,          \* which uncaught exception ended the run ("none" if none)
  trace,            \* history: the external calls issued so far, in order
  attempts,         \* history: one [term, resp] per search request issued
  summarizer_input, \* history: the argument of each SummaryReportAgent.run call
  fs0,              \* history: the working directory before the run
  strips            \* fence-strip harness: a text and its successive strips

vars == <<pc, env_ok, research_topic, json_output, search_terms, idx, results,
          raw_report, summary_report, fs, failure, trace, attempts,
          summarizer_input, fs0, strips>>

flowVars == <<pc, env_ok, research_topic, json_output, search_terms, idx,
              results, raw_report, summary_report, fs, failure, trace, attempts,
              summarizer_input, fs0>>

(***************************************************************************)
(* Bounds of the model.                                                    *)
(***************************************************************************)
MaxTerms == 3      \* longest search_terms list the LLM returns
MaxTopicLen == 2   \* longest generated topic
MaxPieces == 3     \* most pieces a generated report text is built from
MaxApply == 2      \* most applications of the fence-strip step in the harness

(***************************************************************************)
(* Program constants.                                                      *)
(***************************************************************************)
NumResults == 3    \* num=3 of the cse().list request
OpenerLen == 11    \* report[11:]
CloserLen == 3     \* report[:-3]

\* The backquote character (a string literal of the module cannot hold it).
Tick == "BQ"

\* "```markdown" and "```"
Opener == <<Tick, Tick, Tick, "m", "a", "r", "k", "d", "o", "w", "n">>
Closer == <<Tick, Tick, Tick>>
ReportSuffix == <<"_", "r", "e", "p", "o", "r", "t", ".", "m", "d">>

(***************************************************************************)
(* Python string operations, as the code uses them.                        *)
(***************************************************************************)
StartsWith(s, p) == Len(s) >= Len(p) /\ SubSeq(s, 1, Len(p)) = p

EndsWith(s, p) == Len(s) >= Len(p) /\ SubSeq(s, Len(s) - Len(p) + 1, Len(s)) = p

\* s[n:]
SliceFrom(s, n) == SubSeq(s, n + 1, Len(s))

\* s[:-n], n > 0
SliceDropLast(s, n) == SubSeq(s, 1, Len(s) - n)

\* s.replace(" ", "_")
ReplaceSpaces(s) == [i \in 1..Len(s) |-> IF s[i] = " " THEN "_" ELSE s[i]]

(***************************************************************************)
(* SummaryReportAgent.run, lines 165-169: the fence-strip step.            *)
(***************************************************************************)
StripOpener(report) ==
  IF StartsWith(report, Opener) THEN SliceFrom(report, OpenerLen) ELSE report

\* Mutant: the closer strip without its endswith test.
StripCloserUnchecked(report) == SliceDropLast(report, CloserLen)

StripCloser(report) ==
  IF EndsWith(report, Closer) THEN SliceDropLast(report, CloserLen) ELSE report

\* Mutant: the closer is stripped only together with the opener.
FenceStripSymmetric(report) ==
  IF StartsWith(report, Opener)
  THEN StripCloser(SliceFrom(report, OpenerLen))
  ELSE report

FenceStrip(report) == StripCloser(StripOpener(report))

(***************************************************************************)
(* main_research_flow, line 186: the name of the output file.              *)
(***************************************************************************)
OutputFile(topic) == ReplaceSpaces(topic) \o ReportSuffix

(***************************************************************************)
(* open(output_file, "w") ... f.write(summary_report), lines 189-190.      *)
(* A file is a record [name, content]; the directory holds at most one     *)
(* file per name.  Opening for writing truncates or creates the file;      *)
(* the write then gives it its content.                                    *)
(***************************************************************************)
OpenForWrite(dir, name) ==
  {f \in dir : f.name # name} \cup {[name |-> name, content |-> <<>>]}

\* Mutant: the file opened in append mode.
WriteFileAppend(dir, name, text) ==
  {f \in dir : f.name # name}
    \cup {[name |-> name,
           content |-> (IF \E f \in dir : f.name = name
                        THEN (CHOOSE f \in dir : f.name = name).content
                        ELSE <<>>) \o text]}

\* What a write that raises part-way leaves in the file: nothing, or the
\* first half of the text.
PartialWrites(text) == {SubSeq(text, 1, k) : k \in {0, Len(text) \div 2}}

WriteFile(dir, name, text) ==
  {f \in OpenForWrite(dir, name) : f.name # name}
    \cup {[name |-> name, content |-> text]}

(***************************************************************************)
(* SearchConfig.model_validate_json, lines 30-34 and 85.                   *)
(* The LLM's content is a JSON text; its shape is what validation reads:   *)
(*   "malformed"      not JSON at all                                      *)
(*   "missing_field"  an object without "search_terms"                     *)
(*   "wrong_type"     "search_terms" is not a list                         *)
(*   "bad_element"    a list holding a non-string                          *)
(*   "valid"          a list of strings, of any length                     *)
(* The schema says list[str] and nothing about the length.                 *)
(***************************************************************************)
\* Mutant: json.loads without the schema check.
ModelValidateJsonLax(content) ==
  [valid |-> content.shape # "malformed", search_terms |-> content.terms]

ModelValidateJson(content) ==
  IF content.shape = "valid"
  THEN [valid |-> TRUE, search_terms |-> content.terms]
  ELSE [valid |-> FALSE, search_terms |-> <<>>]

JsonShapes == {"malformed", "missing_field", "wrong_type", "bad_element", "valid"}

\* The i-th term of an LLM answer; terms are opaque to the program.
Term(i) == <<"term", i>>

TermList(n) == [i \in 1..n |-> Term(i)]

\* What the LLM may answer: a text that does not conform, or a conforming
\* object with any list of at most MaxTerms terms.
LLMJsonOutputs ==
  {[shape |-> sh, terms |-> <<>>] : sh \in JsonShapes \ {"valid"}}
    \cup {[shape |-> "valid", terms |-> TermList(n)] : n \in 0..MaxTerms}

(***************************************************************************)
(* The custom-search request, lines 94-98, and the mapping of its items,   *)
(* lines 100-110.  The API ranks its items; a response holds the first k   *)
(* of the ranking, k <= num.  Ranks 1 and 3 share a URL, and every term    *)
(* gets the same ranking, so the same URL occurs twice within a term and   *)
(* across terms.                                                           *)
(***************************************************************************)
Item(j) == [link |-> <<"url", j % 2>>, title |-> <<"title", j>>,
            snippet |-> <<"snippet", j>>]

ItemList(k) == [j \in 1..k |-> Item(j)]

Responses ==
  {[kind |-> "HttpError", items |-> <<>>],
   [kind |-> "Exception", items |-> <<>>],
   [kind |-> "no_items", items |-> <<>>]}
    \cup {[kind |-> "items", items |-> ItemList(k)] : k \in 0..NumResults}

\* lines 103-108: one record per item
ResultRecord(search_term, item) ==
  [search_term |-> search_term, url |-> item.link, title |-> item.title,
   description |-> item.snippet]

\* Mutant: items whose link was already seen in the response are skipped.
RECURSIVE DedupItems(_, _)
DedupItems(items, seen) ==
  IF items = <<>> THEN <<>>
  ELSE IF Head(items).link \in seen
       THEN DedupItems(Tail(items), seen)
       ELSE <<Head(items)>> \o DedupItems(Tail(items), seen \cup {Head(items).link})

RecordsOfDedup(search_term, resp) ==
  IF resp.kind = "items"
  THEN LET kept == DedupItems(resp.items, {})
       IN  [j \in 1..Len(kept) |-> ResultRecord(search_term, kept[j])]
  ELSE <<>>

\* lines 93-115: what one pass of the loop body appends to results
RecordsOf(search_term, resp) ==
  IF resp.kind = "items"
  THEN [j \in 1..Len(resp.items) |-> ResultRecord(search_term, resp.items[j])]
  ELSE <<>>

(***************************************************************************)
(* The inputs the environment may supply.                                  *)
(***************************************************************************)
\* "\n# Report\ncontent\n"
ScenarioBody == <<"\n", "#", " ", "R", "e", "p", "o", "r", "t", "\n",
                  "c", "o", "n", "t", "e", "n", "t", "\n">>

\* "AI in healthcare"
ScenarioTopic == <<"A", "I", " ", "i", "n", " ", "h", "e", "a", "l", "t", "h",
                   "c", "a", "r", "e">>

TopicChars == {"A", " "}

Topics ==
  UNION {[1..n -> TopicChars] : n \in 0..MaxTopicLen} \cup {ScenarioTopic}

Pieces == {Opener, Closer, <<Tick>>, ScenarioBody, <<"a">>}

RECURSIVE TextsOf(_)
TextsOf(n) ==
  IF n = 0 THEN {<<>>}
  ELSE LET shorter == TextsOf(n - 1)
       IN  shorter \cup {t \o p : t \in shorter, p \in Pieces}

\* The texts the fence-strip harness starts from.
Texts == TextsOf(MaxPieces)

\* The texts the summarization LLM returns in the flow.
SampleReports == {Opener \o ScenarioBody \o Closer, ScenarioBody}

\* json_output before the LLM has answered.
NoJson == [shape |-> "none", terms |-> <<>>]

\* A file that may already be in the working directory: "A_report.md".
PriorFile == [name |-> OutputFile(<<"A">>), content |-> <<"o", "l", "d">>]

(***************************************************************************)
(* The research flow.                                                      *)
(***************************************************************************)
Init ==
  /\ pc = "Idle"
  /\ env_ok \in BOOLEAN
  /\ research_topic = <<>>
  /\ json_output = NoJson
  /\ search_terms = <<>>
  /\ idx = 1
  /\ results = <<>>
  /\ raw_report = <<>>
  /\ summary_report = <<>>
  /\ fs0 \in {{}, {PriorFile}}
  /\ fs = fs0
  /\ failure = "none"
  /\ trace = <<>>
  /\ attempts = <<>>
  /\ summarizer_input = <<>>
  /\ strips = <<>>

\* An uncaught exception: the process ends with a traceback.
Raise(what) ==
  /\ pc' = "Failed"
  /\ failure' = what

\* line 174: research_topic = input(...)
ReadTopic ==
  /\ pc = "Idle"
  /\ trace' = Append(trace, "input")
  /\ \/ \E t \in Topics :
          /\ research_topic' = t
          /\ pc' = "DerivingQueries"
          /\ UNCHANGED failure
     \/ /\ Raise("input")
        /\ UNCHANGED research_topic
  /\ UNCHANGED <<env_ok, json_output, search_terms, idx, results, raw_report,
                 summary_report, fs, attempts, summarizer_input, fs0, strips>>

\* Mutant: a validation failure is retried with another LLM call.
DeriveQueriesRetry ==
  /\ pc = "DerivingQueries"
  /\ IF ~env_ok
     THEN /\ Raise("config")
          /\ UNCHANGED <<trace, json_output, search_terms, idx, results>>
     ELSE /\ trace' = Append(trace, "llm_derive")
          /\ \/ /\ Raise("derive_llm")
                /\ UNCHANGED <<json_output, search_terms, idx, results>>
             \/ \E content \in LLMJsonOutputs :
                  LET search == ModelValidateJson(content)
                  IN  /\ json_output' = content
                      /\ IF search.valid
                         THEN /\ search_terms' = search.search_terms
                              /\ results' = <<>>
                              /\ idx' = 1
                              /\ pc' = "SearchingWeb"
                              /\ UNCHANGED failure
                         ELSE UNCHANGED <<pc, failure, search_terms, idx, results>>
  /\ UNCHANGED <<env_ok, research_topic, raw_report, summary_report, fs,
                 attempts, summarizer_input, fs0, strips>>

\* lines 176-177, 42-50 and 68-89: WebSearchAgent(), then run() up to the loop
DeriveQueries ==
  /\ pc = "DerivingQueries"
  /\ IF ~env_ok
     THEN /\ Raise("config")
          /\ UNCHANGED <<trace, json_output, search_terms, idx, results>>
     ELSE /\ trace' = Append(trace, "llm_derive")
          /\ \/ /\ Raise("derive_llm")
                /\ UNCHANGED <<json_output, search_terms, idx, results>>
             \/ \E content \in LLMJsonOutputs :
                  LET search == ModelValidateJson(content)
                  IN  /\ json_output' = content
                      /\ IF search.valid
                         THEN /\ search_terms' = search.search_terms
                              /\ results' = <<>>
                              /\ idx' = 1
                              /\ pc' = "SearchingWeb"
                              /\ UNCHANGED failure
                         ELSE /\ Raise("validation")
                              /\ UNCHANGED <<search_terms, idx, results>>
  /\ UNCHANGED <<env_ok, research_topic, raw_report, summary_report, fs,
                 attempts, summarizer_input, fs0, strips>>

\* Mutant: the loop body without its try/except.
SearchTermAbortOnError ==
  /\ pc = "SearchingWeb"
  /\ idx <= Len(search_terms)
  /\ \E resp \in Responses :
       LET search_term == search_terms[idx]
       IN  /\ results' = results \o RecordsOf(search_term, resp)
           /\ attempts' = Append(attempts, [term |-> search_term, resp |-> resp])
           /\ IF resp.kind \in {"HttpError", "Exception"}
              THEN Raise("search")
              ELSE UNCHANGED <<pc, failure>>
  /\ idx' = idx + 1
  /\ trace' = Append(trace, "search")
  /\ UNCHANGED <<env_ok, research_topic, json_output, search_terms, raw_report,
                 summary_report, fs, summarizer_input, fs0, strips>>

\* lines 91-115: one pass of the for loop
SearchTerm ==
  /\ pc = "SearchingWeb"
  /\ idx <= Len(search_terms)
  /\ \E resp \in Responses :
       LET search_term == search_terms[idx]
       IN  /\ results' = results \o RecordsOf(search_term, resp)
           /\ attempts' = Append(attempts, [term |-> search_term, resp |-> resp])
  /\ idx' = idx + 1
  /\ trace' = Append(trace, "search")
  /\ UNCHANGED <<pc, env_ok, research_topic, json_output, search_terms, raw_report,
                 summary_report, fs, failure, summarizer_input, fs0, strips>>

\* Mutant: main_research_flow without the "if not results" check.
FinishSearchNoCheck ==
  /\ pc = "SearchingWeb"
  /\ idx > Len(search_terms)
  /\ pc' = "Summarizing"
  /\ UNCHANGED <<env_ok, research_topic, json_output, search_terms, idx, results,
                 raw_report, summary_report, fs, failure, trace, attempts,
                 summarizer_input, fs0, strips>>

\* lines 117-118 and 177-181: the loop is over, run() returns, main checks results
FinishSearch ==
  /\ pc = "SearchingWeb"
  /\ idx > Len(search_terms)
  /\ pc' = IF results = <<>> THEN "Aborted" ELSE "Summarizing"
  /\ UNCHANGED <<env_ok, research_topic, json_output, search_terms, idx, results, raw_report,
                 summary_report, fs, failure, trace, attempts, summarizer_input,
                 fs0, strips>>

\* Mutant: a failed summarization call is caught and an empty report written.
SummarizeSwallowsError ==
  /\ pc = "Summarizing"
  /\ trace' = Append(trace, "llm_summary")
  /\ summarizer_input' = Append(summarizer_input, results)
  /\ \/ /\ failure' = "summary_llm"
        /\ pc' = "WritingReport"
        /\ UNCHANGED <<raw_report, summary_report>>
     \/ \E report \in SampleReports :
          /\ raw_report' = report
          /\ summary_report' = FenceStrip(report)
          /\ pc' = "WritingReport"
          /\ UNCHANGED failure
  /\ UNCHANGED <<env_ok, research_topic, json_output, search_terms, idx, results,
                 fs, attempts, fs0, strips>>

\* lines 183-184 and 148-169: SummaryReportAgent(), then run(results)
Summarize ==
  /\ pc = "Summarizing"
  /\ trace' = Append(trace, "llm_summary")
  /\ summarizer_input' = Append(summarizer_input, results)
  /\ \/ /\ Raise("summary_llm")
        /\ UNCHANGED <<raw_report, summary_report>>
     \/ \E report \in SampleReports :
          /\ raw_report' = report
          /\ summary_report' = FenceStrip(report)
          /\ pc' = "WritingReport"
          /\ UNCHANGED failure
  /\ UNCHANGED <<env_ok, research_topic, json_output, search_terms, idx, results, fs,
                 attempts, fs0, strips>>

\* Mutant: a failing open() is caught and the run ends as if the report was saved.
WriteReportSwallowsOpenError ==
  /\ pc = "WritingReport"
  /\ trace' = Append(trace, "write")
  /\ LET output_file == OutputFile(research_topic)
     IN  \/ /\ fs' = WriteFile(fs, output_file, summary_report)
            /\ pc' = "Done"
            /\ UNCHANGED failure
         \/ /\ pc' = "Done"
            /\ UNCHANGED <<fs, failure>>
         \/ \E partial \in PartialWrites(summary_report) :
              /\ Raise("write")
              /\ fs' = WriteFile(fs, output_file, partial)
  /\ UNCHANGED <<env_ok, research_topic, json_output, search_terms, idx, results,
                 raw_report, summary_report, attempts, summarizer_input, fs0,
                 strips>>

\* lines 186-191: the file write.  open() may raise (nothing is created or
\* changed); write() or the close may raise after open() has truncated or
\* created the file, which then holds an incomplete report.
WriteReport ==
  /\ pc = "WritingReport"
  /\ trace' = Append(trace, "write")
  /\ LET output_file == OutputFile(research_topic)
     IN  \/ /\ fs' = WriteFile(fs, output_file, summary_report)
            /\ pc' = "Done"
            /\ UNCHANGED failure
         \/ /\ Raise("open")
            /\ UNCHANGED fs
         \/ \E partial \in PartialWrites(summary_report) :
              /\ Raise("write")
              /\ fs' = WriteFile(fs, output_file, partial)
  /\ UNCHANGED <<env_ok, research_topic, json_output, search_terms, idx, results,
                 raw_report, summary_report, attempts, summarizer_input, fs0,
                 strips>>

Next ==
  \/ ReadTopic
  \/ DeriveQueries
  \/ SearchTerm
  \/ FinishSearch
  \/ Summarize
  \/ WriteReport

Spec == Init /\ [][Next]_vars

\* Every call returns or raises, and the interpreter runs the next statement.
FairSpec == Spec /\ WF_vars(Next)

(***************************************************************************)
(* The fence-strip step on its own: strips[1] is a text, strips[k + 1] the *)
(* step applied to strips[k].                                              *)
(***************************************************************************)
InitStrip ==
  /\ pc = "Idle"
  /\ env_ok = TRUE
  /\ research_topic = <<>>
  /\ json_output = NoJson
  /\ search_terms = <<>>
  /\ idx = 1
  /\ results = <<>>
  /\ raw_report = <<>>
  /\ summary_report = <<>>
  /\ fs0 = {}
  /\ fs = {}
  /\ failure = "none"
  /\ trace = <<>>
  /\ attempts = <<>>
  /\ summarizer_input = <<>>
  /\ strips \in {<<t>> : t \in Texts}

ApplyFenceStrip ==
  /\ Len(strips) <= MaxApply
  /\ strips' = Append(strips, FenceStrip(strips[Len(strips)]))
  /\ UNCHANGED flowVars

NextStrip == ApplyFenceStrip

StripSpec == InitStrip /\ [][NextStrip]_vars

(***************************************************************************)
(* Vocabulary of the properties.                                           *)
(***************************************************************************)
\* The search stage has returned to main_research_flow.
SearchDone ==
  \/ pc \in {"Aborted", "Summarizing", "WritingReport", "Done"}
  \/ failure \in {"summary_llm", "open", "write"}

Terminal == pc \in {"Done", "Aborted", "Failed"}

Occurrences(op) == Cardinality({i \in 1..Len(trace) : trace[i] = op})

IsPrefix(s, t) == Len(s) <= Len(t) /\ SubSeq(t, 1, Len(s)) = s

\* The items a search request returned (none when it raised or held no items).
ItemsOf(a) == IF a.resp.kind = "items" THEN a.resp.items ELSE <<>>

\* The number of records the requests before the i-th one account for.
RECURSIVE Offset(_)
Offset(i) == IF i <= 1 THEN 0 ELSE Offset(i - 1) + Len(ItemsOf(attempts[i - 1]))

(***************************************************************************)
(* C1: in WebSearchAgent.run every term is attempted exactly once, in      *)
(* input order; a request that raises (HttpError or any other exception)   *)
(* leaves the run in the search stage, moves on to the next term, removes  *)
(* no record already collected, and later terms still add their records.   *)
(***************************************************************************)
AttemptedInOrder ==
  /\ Len(attempts) <= Len(search_terms)
  /\ \A i \in 1..Len(attempts) : attempts[i].term = search_terms[i]
  /\ pc = "SearchingWeb" => Len(attempts) = idx - 1
  /\ SearchDone => Len(attempts) = Len(search_terms)
  /\ (pc = "Failed" /\ json_output.shape = "valid")
       => Len(attempts) = Len(search_terms)

SearchStepTolerant ==
  (pc = "SearchingWeb" /\ idx <= Len(search_terms) /\ vars' # vars)
    => /\ pc' = "SearchingWeb"
       /\ failure' = failure
       /\ idx' = idx + 1
       /\ Len(attempts') = Len(attempts) + 1
       /\ IsPrefix(results, results')
       /\ Len(results') = Len(results) + Len(ItemsOf(attempts'[Len(attempts')]))

\* C1: every term is attempted once, in order, and a failed request neither
\* ends the search stage nor costs a record, before or after it.
ExecutorToleratesFailures == []AttemptedInOrder /\ [][SearchStepTolerant]_vars

\* A request failed, a later one returned items, and the stage returned them.
FailureThenResultsReached ==
  /\ pc = "Summarizing"
  /\ \E i, j \in 1..Len(attempts) :
       /\ i < j
       /\ attempts[i].resp.kind \in {"HttpError", "Exception"}
       /\ Len(ItemsOf(attempts[j])) > 0
  /\ results # <<>>

(***************************************************************************)
(* C2: when the search stage returns an empty sequence the run aborts:     *)
(* the Summarizer is never invoked and no file is written; the Summarizer  *)
(* is only ever invoked with a non-empty sequence.                         *)
(***************************************************************************)
EmptyResultsAbort ==
  /\ (SearchDone /\ results = <<>>)
       => /\ pc = "Aborted"
          /\ summarizer_input = <<>>
          /\ Occurrences("llm_summary") = 0
          /\ Occurrences("write") = 0
          /\ fs = fs0
  /\ \A k \in 1..Len(summarizer_input) : summarizer_input[k] # <<>>

\* Scenario 3: three terms, every request raised.
AllTermsFailedAborted ==
  /\ pc = "Aborted"
  /\ Len(attempts) = 3
  /\ \A i \in 1..Len(attempts) : attempts[i].resp.kind \in {"HttpError", "Exception"}

(***************************************************************************)
(* C5 as stated: whenever the loop starts, the list it iterates over has   *)
(* exactly three elements, so three requests are issued and at most nine   *)
(* records collected.                                                      *)
(***************************************************************************)
ExactlyThreeTerms ==
  /\ pc = "SearchingWeb" => Len(search_terms) = 3
  /\ SearchDone => (Len(attempts) = 3 /\ Len(results) <= 9)

(***************************************************************************)
(* C5 amended: whenever the loop starts, the list it iterates over is the  *)
(* list of strings the validated JSON held, of whatever length; one        *)
(* request is issued per element and at most NumResults records collected  *)
(* per request (three requests and at most nine records when the LLM did   *)
(* return three terms).                                                    *)
(***************************************************************************)
TermsAsValidated ==
  (pc = "SearchingWeb" \/ SearchDone)
    => /\ json_output.shape = "valid"
       /\ search_terms = json_output.terms
       /\ Len(results) <= NumResults * Len(attempts)
       /\ SearchDone => Len(attempts) = Len(search_terms)
       /\ (SearchDone /\ Len(json_output.terms) = 3)
            => (Len(attempts) = 3 /\ Len(results) <= 9)

\* A validated answer that does not hold three terms drove the whole loop.
NotThreeTermsSearched ==
  /\ pc = "Summarizing"
  /\ Len(search_terms) # 3
  /\ Len(search_terms) > 0
  /\ Len(results) = NumResults * Len(search_terms)

(***************************************************************************)
(* C6: the sequence run() returns is the concatenation, in term order, of  *)
(* one record per item of each successful response, in the API's order     *)
(* and tagged with the term; failed or item-less requests add nothing;     *)
(* nothing is deduplicated or reordered; the Summarizer gets exactly it.   *)
(***************************************************************************)
ResultsAreConcatenation ==
  /\ Len(results) = Offset(Len(attempts) + 1)
  /\ \A i \in 1..Len(attempts) :
       \A j \in 1..Len(ItemsOf(attempts[i])) :
         results[Offset(i) + j] =
           [search_term |-> attempts[i].term,
            url |-> ItemsOf(attempts[i])[j].link,
            title |-> ItemsOf(attempts[i])[j].title,
            description |-> ItemsOf(attempts[i])[j].snippet]
  /\ SearchDone => [i \in 1..Len(attempts) |-> attempts[i].term] = search_terms
  /\ \A k \in 1..Len(summarizer_input) : summarizer_input[k] = results

\* Scenario 1: responses of 2, 0 and 1 items; the Summarizer got the 3 records.
TwoZeroOneSummarized ==
  /\ pc = "WritingReport"
  /\ Len(attempts) = 3
  /\ Len(ItemsOf(attempts[1])) = 2
  /\ attempts[2].resp.kind = "no_items"
  /\ Len(ItemsOf(attempts[3])) = 1
  /\ Len(results) = 3
  /\ summarizer_input = <<results>>

(***************************************************************************)
(* C4: a stage-fatal failure ends the run.  When the query-derivation LLM  *)
(* call raises or its output does not validate, no search request is ever  *)
(* issued; when that stage or the summarization LLM call fails, the        *)
(* failing call is the last external call of the run and no file is        *)
(* written, even though search results had been collected.                 *)
(***************************************************************************)
StageFatalIsTerminal ==
  /\ json_output.shape \notin {"none", "valid"}
       => (failure = "validation" /\ attempts = <<>>)
  /\ failure \in {"derive_llm", "validation"}
       => /\ pc = "Failed"
          /\ trace[Len(trace)] = "llm_derive"
          /\ attempts = <<>>
          /\ Occurrences("search") = 0
          /\ Occurrences("llm_summary") = 0
          /\ Occurrences("write") = 0
          /\ fs = fs0
  /\ failure = "summary_llm"
       => /\ pc = "Failed"
          /\ trace[Len(trace)] = "llm_summary"
          /\ Occurrences("write") = 0
          /\ fs = fs0

\* The summarization call failed after records had been collected.
SummaryFailedAfterResults ==
  /\ failure = "summary_llm"
  /\ Len(results) > 0
  /\ fs = fs0

(***************************************************************************)
(* C8: on a run that reaches the Writer and completes, exactly one file is *)
(* written; its name is the topic with every space replaced by an          *)
(* underscore, followed by "_report.md"; its content is exactly the        *)
(* post-processed report, replacing any prior content; no other file       *)
(* changes.                                                                *)
(***************************************************************************)
ExpectedName ==
  [i \in 1..(Len(research_topic) + Len(ReportSuffix)) |->
     IF i <= Len(research_topic)
     THEN (IF research_topic[i] = " " THEN "_" ELSE research_topic[i])
     ELSE ReportSuffix[i - Len(research_topic)]]

\* "AI_in_healthcare_report.md"
ScenarioFileName ==
  <<"A", "I", "_", "i", "n", "_", "h", "e", "a", "l", "t", "h", "c", "a", "r",
    "e", "_", "r", "e", "p", "o", "r", "t", ".", "m", "d">>

Rank(op) ==
  CASE op = "input" -> 1
    [] op = "llm_derive" -> 2
    [] op = "search" -> 3
    [] op = "llm_summary" -> 4
    [] op = "write" -> 5

TraceOrdered ==
  /\ \A i, j \in 1..Len(trace) :
       i < j => \/ Rank(trace[i]) < Rank(trace[j])
                \/ (trace[i] = "search" /\ trace[j] = "search")
  /\ Occurrences("search") > 0 => Occurrences("llm_derive") = 1
  /\ Occurrences("llm_summary") > 0
       => (Occurrences("llm_derive") = 1
           /\ Occurrences("search") = Len(search_terms))
  /\ Occurrences("write") > 0 => Occurrences("llm_summary") = 1

Transitions ==
  {<<"Idle", "DerivingQueries">>, <<"DerivingQueries", "SearchingWeb">>,
   <<"SearchingWeb", "Aborted">>, <<"SearchingWeb", "Summarizing">>,
   <<"Summarizing", "WritingReport">>, <<"WritingReport", "Done">>,
   <<"Idle", "Failed">>, <<"DerivingQueries", "Failed">>,
   <<"Summarizing", "Failed">>, <<"WritingReport", "Failed">>}

StepFollowsMachine ==
  /\ pc' # pc => <<pc, pc'>> \in Transitions
  /\ (pc' = pc /\ vars' # vars) => pc = "SearchingWeb"

\* C9: the external calls come in stage order, one LLM call per agent and one
\* file write at most, and pc only moves along the state machine.
LinearFlow == []TraceOrdered /\ [][StepFollowsMachine]_vars

\* A complete run over three terms.
FullRunDone ==
  /\ pc = "Done"
  /\ trace = <<"input", "llm_derive", "search", "search", "search",
               "llm_summary", "write">>

(***************************************************************************)
(* C10 as stated: if every external call returns or raises, every run      *)
(* eventually reaches one terminal outcome - Done (file written), Aborted  *)
(* (empty results, no file) or Failed (propagated error, no file) - and    *)
(* after it no external call or file write occurs.                         *)
(***************************************************************************)
DoneOutcome ==
  pc = "Done" => [name |-> ExpectedName, content |-> summary_report] \in fs

AbortedOutcome ==
  pc = "Aborted" => (results = <<>> /\ failure = "none" /\ fs = fs0)

NothingAfterTerminal == Terminal => UNCHANGED vars

\* C10 as stated: the run ends in Done, Aborted or Failed, nothing happens
\* afterwards, and a Failed run has written no file.
TerminatesWithoutFileOnFailure ==
  /\ <>Terminal
  /\ [](DoneOutcome /\ AbortedOutcome)
  /\ [](pc = "Failed" => (failure # "none" /\ fs = fs0))
  /\ [][NothingAfterTerminal]_vars

(***************************************************************************)
(* C10 amended: as stated, except that a run that fails in the file write  *)
(* itself, after the file was opened, leaves the output file created or    *)
(* truncated, holding an incomplete report; every other failure leaves no  *)
(* file written.                                                           *)
(***************************************************************************)
FailedOutcome ==
  pc = "Failed"
    => /\ failure # "none"
       /\ failure # "write" => fs = fs0
       /\ failure = "write"
            => \E f \in fs :
                 /\ f.name = ExpectedName
                 /\ IsPrefix(f.content, summary_report)
                 /\ fs \ {f} = {g \in fs0 : g.name # ExpectedName}

\* C10 amended: the run ends in Done, Aborted or Failed, nothing happens
\* afterwards, and a Failed run has written no file unless the write itself
\* raised after the file was opened.
TerminatesInOneOutcome ==
  /\ <>Terminal
  /\ [](DoneOutcome /\ AbortedOutcome /\ FailedOutcome)
  /\ [][NothingAfterTerminal]_vars

\* The write raised after open(): the run failed and the file is there.
WriteFailedFileLeft ==
  /\ pc = "Failed"
  /\ failure = "write"
  /\ fs0 = {}
  /\ fs # {}

(***************************************************************************)
(* Properties of the fence-strip step, over StripSpec.                     *)
(***************************************************************************)
\* Character tests written out, independent of the step's own helpers.
HasOpener(t) == Len(t) >= 11 /\ \A i \in 1..11 : t[i] = Opener[i]

HasCloser(t) == Len(t) >= 3 /\ \A i \in 1..3 : t[Len(t) - 3 + i] = Tick

\* Every backquote of t belongs to one leading opener or one trailing closer.
SingleFenced(t) ==
  \E a \in {<<>>, Opener}, c \in {<<>>, Closer} :
    /\ Len(t) >= Len(a) + Len(c)
    /\ SubSeq(t, 1, Len(a)) = a
    /\ SubSeq(t, Len(t) - Len(c) + 1, Len(t)) = c
    /\ \A i \in (Len(a) + 1)..(Len(t) - Len(c)) : t[i] # Tick

FenceStripExact ==
  Len(strips) >= 2
    => strips[1] = (IF HasOpener(strips[1]) THEN Opener ELSE <<>>)
                     \o strips[2]
                     \o (IF HasCloser(strips[1]) THEN Closer ELSE <<>>)

\* Scenario 2: the fenced report was stripped to its body.
ScenarioTwoStripped ==
  /\ Len(strips) = 2
  /\ strips[1] = Opener \o ScenarioBody \o Closer
  /\ strips[2] = ScenarioBody

====
